---- MODULE Spec2Model ----
(***************************************************************************)
(* State-machine model of the transcription pipeline:                      *)
(*   main.run                 -> RunDiscover, DownloadStep, TranscribeStep *)
(*   service/downloader.py    -> discovery and the Fetch Stage             *)
(*   service/transcriber.py   -> the Transcribe Stage                      *)
(*   service/database_handler -> the Persistence Gateway                   *)
(*   main.py, __main__ block  -> Main                                      *)
(* Three specifications: Spec is run() called with services that stand on  *)
(* the directories of paths.py, next to the program started through its    *)
(* entry point; StageSpec is the Transcribe Stage called on its own,       *)
(* GatewaySpec the gateway called on its own.                              *)
(* Values that Python leaves as None are the string "None" (0 for the      *)
(* optional integer column), so that every field keeps one type.           *)
(***************************************************************************)
EXTENDS Integers, Sequences, FiniteSets, TLC

(***************************************************************************)
(* Bounds of the model.                                                    *)
(***************************************************************************)
MaxEntries == 2
MaxRuns == 2
MaxWrites == 2

(***************************************************************************)
(* Values.                                                                 *)
(***************************************************************************)
None == "None"
NoneInt == 0
NoFile == "<no file>"

PENDING == "PENDING"
DOWNLOADED == "DOWNLOADED"
TRANSCRIBED == "TRANSCRIBED"
EMBEDDED == "EMBEDDED"
TrackProcessingStatus == {PENDING, DOWNLOADED, TRANSCRIBED, EMBEDDED}

\* Position of a status in the pipeline order PENDING < ... < EMBEDDED.
StatusRank(s) ==
    CASE s = PENDING -> 0
      [] s = DOWNLOADED -> 1
      [] s = TRANSCRIBED -> 2
      [] s = EMBEDDED -> 3

\* Webpage URLs as the discovery capability reports them (raw strings).
\* The first has an empty path, the second does not.
EmptyPathUrls == {"https://x.io"}
RawUrls == {"https://x.io", "https://x.io/b"}
\* Media locators are ephemeral: the k-th entry of the discovery answer of
\* run number `run` carries a locator of its own.
MediaUrl(run, k) == "https://m.io/" \o ToString(run) \o "/" \o ToString(k)
PlaylistUrl == "https://x.io/sets/p"
AUDIO_DIR == "tmp/audio/"
TRANSCRIPT_DIR == "tmp/transcripts/"

\* pydantic's HttpUrl(s): the URL is parsed and re-serialised; a URL with an
\* empty path gets the root path "/".  str() of the result is that string.
HttpUrl(s) == IF s \in EmptyPathUrls THEN s \o "/" ELSE s

\* uuid.uuid5(uuid.NAMESPACE_URL, name): a deterministic, injective image of
\* the name string.
Uuid5(name) == "uuid5:" \o name

\* IDownloaderService.unique_audio_file_path; the argument is an HttpUrl
\* (already serialised form).
UniqueAudioFilePath(webpage_url) == AUDIO_DIR \o Uuid5(webpage_url) \o ".wav"

\* ITranscriberService.unique_transcript_file_path.
UniqueTranscriptFilePath(webpage_url, extension) ==
    TRANSCRIPT_DIR \o Uuid5(webpage_url) \o "." \o extension

AudioPaths == {UniqueAudioFilePath(HttpUrl(u)) : u \in RawUrls}
TranscriptPaths ==
    {UniqueTranscriptFilePath(HttpUrl(u), e) : u \in RawUrls, e \in {"json", "txt"}}

(***************************************************************************)
(* Persistence Gateway (PostgresDatabase).  The tracks table is a set of   *)
(* rows, unique on track_uuid and on webpage_url; the transcripts table is *)
(* a set of rows, unique on track_uuid with a foreign key to tracks.       *)
(***************************************************************************)

\* PostgresDatabase.track_is_transcribed
TrackIsTranscribed(tracks_rows, webpage_url) ==
    LET track_uuid == Uuid5(webpage_url)
        count == Cardinality({r \in tracks_rows :
                                /\ r.track_uuid = track_uuid
                                /\ r.status = TRANSCRIBED})
    IN  count > 0

\* values_to_insert of PostgresDatabase.insert_track
TrackValuesToInsert(track) ==
    [track_uuid |-> track.uuid,
     title |-> track.title,
     webpage_url |-> track.webpage_url,
     download_url |-> track.download_url,
     playlist_url |-> track.playlist_url,
     track_number_in_playlist |-> track.track_number_in_playlist,
     uploader |-> track.uploader,
     status |-> track.status,
     duration_seconds |-> track.duration_seconds,
     audio_file_path |-> track.audio_file_path]

\* What can go wrong between the gateway and the store during one call:
\* nothing; engine.connect() fails (a statement or a commit that fails and
\* is rolled back leaves the store the same way); connection.commit()
\* raises after the store has committed (the acknowledgement is lost).
NoFault == "none"
Faults == {NoFault, "connect", "commit applied"}

\* As InsertTrack, with ON CONFLICT (track_uuid) DO NOTHING: a row that is
\* there is kept as it is.
InsertTrackDoNothing(tracks_rows, track, fault) ==
    LET v == TrackValuesToInsert(track)
        others == {r \in tracks_rows : r.track_uuid # v.track_uuid}
        written == IF \E r \in tracks_rows : r.track_uuid = v.track_uuid
                   THEN tracks_rows ELSE others \cup {v}
    IN  IF fault = "connect"
        THEN [raised |-> "OperationalError", rows |-> tracks_rows]
        ELSE IF \E r \in others : r.webpage_url = v.webpage_url
        THEN [raised |-> "IntegrityError", rows |-> tracks_rows]
        ELSE IF fault = "commit applied"
        THEN [raised |-> "OperationalError", rows |-> written]
        ELSE [raised |-> None, rows |-> written]

\* As InsertTrack, with the update of an existing row made by two
\* statements, each committed on its own: the status first, the other
\* columns second.  A commit that raises after it was applied ends the call
\* with the new status and the old other columns in the row.
InsertTrackTwoStatements(tracks_rows, track, fault) ==
    LET v == TrackValuesToInsert(track)
        others == {r \in tracks_rows : r.track_uuid # v.track_uuid}
        olds == {r \in tracks_rows : r.track_uuid = v.track_uuid}
        written == others \cup {v}
        half == others \cup {[r EXCEPT !.status = v.status] : r \in olds}
    IN  IF fault = "connect"
        THEN [raised |-> "OperationalError", rows |-> tracks_rows]
        ELSE IF \E r \in others : r.webpage_url = v.webpage_url
        THEN [raised |-> "IntegrityError", rows |-> tracks_rows]
        ELSE IF fault = "commit applied"
        THEN [raised |-> "OperationalError",
              rows |-> IF olds = {} THEN written ELSE half]
        ELSE [raised |-> None, rows |-> written]

\* As InsertTrack, on a tracks table without the unique index on
\* webpage_url.
InsertTrackNoUrlIndex(tracks_rows, track, fault) ==
    LET v == TrackValuesToInsert(track)
        others == {r \in tracks_rows : r.track_uuid # v.track_uuid}
        written == others \cup {v}
    IN  IF fault = "connect"
        THEN [raised |-> "OperationalError", rows |-> tracks_rows]
        ELSE IF fault = "commit applied"
        THEN [raised |-> "OperationalError", rows |-> written]
        ELSE [raised |-> None, rows |-> written]

\* PostgresDatabase.insert_track: one INSERT ... ON CONFLICT (track_uuid) DO
\* UPDATE statement and one commit.  The result is [raised, rows]; a
\* violation of the second unique index (webpage_url) raises and leaves the
\* table as it was.
InsertTrack(tracks_rows, track, fault) ==
    LET v == TrackValuesToInsert(track)
        others == {r \in tracks_rows : r.track_uuid # v.track_uuid}
        written == others \cup {v}
    IN  IF fault = "connect"
        THEN [raised |-> "OperationalError", rows |-> tracks_rows]
        ELSE IF \E r \in others : r.webpage_url = v.webpage_url
        THEN [raised |-> "IntegrityError", rows |-> tracks_rows]
        ELSE IF fault = "commit applied"
        THEN [raised |-> "OperationalError", rows |-> written]
        ELSE [raised |-> None, rows |-> written]

\* As InsertTranscript, with ON CONFLICT (track_uuid) DO NOTHING.
InsertTranscriptDoNothing(tracks_rows, transcripts_rows, transcript, fault) ==
    IF {"uuid", "aligned_result", "embedding"} \ DOMAIN transcript # {}
    THEN [raised |-> "AttributeError", rows |-> transcripts_rows]
    ELSE
    LET v == [track_uuid |-> transcript.uuid,
              aligned_segments_data |-> transcript.aligned_result,
              embeddings |-> transcript.embedding]
        others == {r \in transcripts_rows : r.track_uuid # v.track_uuid}
        written == IF \E r \in transcripts_rows : r.track_uuid = v.track_uuid
                   THEN transcripts_rows ELSE others \cup {v}
    IN  IF fault = "connect"
        THEN [raised |-> "OperationalError", rows |-> transcripts_rows]
        ELSE IF \A r \in tracks_rows : r.track_uuid # v.track_uuid
        THEN [raised |-> "IntegrityError", rows |-> transcripts_rows]
        ELSE IF fault = "commit applied"
        THEN [raised |-> "OperationalError", rows |-> written]
        ELSE [raised |-> None, rows |-> written]

\* As InsertTranscript, on a transcripts table whose track_uuid is no
\* foreign key.
InsertTranscriptNoForeignKey(tracks_rows, transcripts_rows, transcript, fault) ==
    IF {"uuid", "aligned_result", "embedding"} \ DOMAIN transcript # {}
    THEN [raised |-> "AttributeError", rows |-> transcripts_rows]
    ELSE
    LET v == [track_uuid |-> transcript.uuid,
              aligned_segments_data |-> transcript.aligned_result,
              embeddings |-> transcript.embedding]
        others == {r \in transcripts_rows : r.track_uuid # v.track_uuid}
        written == others \cup {v}
    IN  IF fault = "connect"
        THEN [raised |-> "OperationalError", rows |-> transcripts_rows]
        ELSE IF fault = "commit applied"
        THEN [raised |-> "OperationalError", rows |-> written]
        ELSE [raised |-> None, rows |-> written]

\* PostgresDatabase.insert_transcript: one INSERT ... ON CONFLICT
\* (track_uuid) DO UPDATE statement and one commit.  The argument is read
\* for its attributes uuid, aligned_result and embedding before the store
\* is contacted; an object without one of them raises AttributeError.
\* The result is [raised, rows].
InsertTranscript(tracks_rows, transcripts_rows, transcript, fault) ==
    IF {"uuid", "aligned_result", "embedding"} \ DOMAIN transcript # {}
    THEN [raised |-> "AttributeError", rows |-> transcripts_rows]
    ELSE
    LET v == [track_uuid |-> transcript.uuid,
              aligned_segments_data |-> transcript.aligned_result,
              embeddings |-> transcript.embedding]
        others == {r \in transcripts_rows : r.track_uuid # v.track_uuid}
        written == others \cup {v}
    IN  IF fault = "connect"
        THEN [raised |-> "OperationalError", rows |-> transcripts_rows]
        ELSE IF \A r \in tracks_rows : r.track_uuid # v.track_uuid
        THEN [raised |-> "IntegrityError", rows |-> transcripts_rows]
        ELSE IF fault = "commit applied"
        THEN [raised |-> "OperationalError", rows |-> written]
        ELSE [raised |-> None, rows |-> written]

(***************************************************************************)
(* In-memory objects (schemas.py).                                         *)
(***************************************************************************)

\* Fields declared by schemas.Track and by schemas.Transcript.  Both are
\* pydantic models without extra="allow": constructing one drops keyword
\* arguments that are not fields, and assigning an attribute that is not a
\* field raises ValueError.
TrackFields ==
    {"uuid", "id", "title", "webpage_url", "download_url", "uploader",
     "duration_seconds", "playlist_title", "playlist_url",
     "track_number_in_playlist", "status", "audio_file_path",
     "transcriptions", "embedding"}
TranscriptFields == {}

\* BaseModel.__setattr__: allowed only for a declared field.
SetAttrAllowed(fields, name) == name \in fields

\* As NewTrack, minting the uuid from the media locator instead of the
\* webpage URL.
NewTrackMediaId(raw_url, title, media_url, uploader, duration, number, playlist_url, playlist_title) ==
    [uuid |-> Uuid5(media_url),
     title |-> title,
     webpage_url |-> HttpUrl(raw_url),
     download_url |-> HttpUrl(media_url),
     uploader |-> uploader,
     duration_seconds |-> duration,
     playlist_title |-> playlist_title,
     playlist_url |-> playlist_url,
     track_number_in_playlist |-> number,
     status |-> PENDING,
     audio_file_path |-> None]

\* Track(...) as both discovery functions construct it.
NewTrack(raw_url, title, media_url, uploader, duration, number, playlist_url, playlist_title) ==
    [uuid |-> Uuid5(raw_url),
     title |-> title,
     webpage_url |-> HttpUrl(raw_url),
     download_url |-> HttpUrl(media_url),
     uploader |-> uploader,
     duration_seconds |-> duration,
     playlist_title |-> playlist_title,
     playlist_url |-> playlist_url,
     track_number_in_playlist |-> number,
     status |-> PENDING,
     audio_file_path |-> None]

\* Transcript(uuid=..., aligned_result=...): the object keeps the keyword
\* arguments that are declared fields and drops the others.
NewTranscript(uuid, aligned_result) ==
    [f \in {"uuid", "aligned_result"} \cap TranscriptFields |->
        IF f = "uuid" THEN uuid ELSE aligned_result]

\* No Transcript: what a call that raised hands back.
NoTranscript == [none |-> TRUE]

\* Python's None where a Track is expected.
NoTrack ==
    [uuid |-> None, title |-> None, webpage_url |-> None,
     download_url |-> None, uploader |-> None, duration_seconds |-> None,
     playlist_title |-> None, playlist_url |-> None,
     track_number_in_playlist |-> NoneInt, status |-> None,
     audio_file_path |-> None]

(***************************************************************************)
(* Discovery capability (yt-dlp extract_info).  Its answer is              *)
(* [found, title, entries]: found = FALSE is a None answer; for a single   *)
(* track the answer's own fields are entries[1].                           *)
(***************************************************************************)
Entry(webpage_url, url) ==
    [title |-> "A", webpage_url |-> webpage_url, url |-> url,
     uploader |-> None, duration |-> None]

\* Kinds of entry: a valid entry for one of the webpage URLs, an entry
\* without a webpage URL, an entry without a media locator.
NoWebpage == "<no webpage_url>"
NoMedia == "<no url>"
EntryKinds == RawUrls \cup {NoWebpage, NoMedia}

EntryOf(kind, run, k) ==
    CASE kind = NoWebpage -> Entry(None, MediaUrl(run, k))
      [] kind = NoMedia -> Entry("https://x.io/b", None)
      [] OTHER -> Entry(kind, MediaUrl(run, k))

NoInfo == [found |-> FALSE, title |-> None, entries |-> <<>>]

SeqsUpTo(S, n) == UNION {[1..k -> S] : k \in 0..n}

\* Answers of the discovery capability in run number `run`.
PlaylistInfos(run) ==
    {NoInfo} \cup
    {[found |-> TRUE, title |-> "P",
      entries |-> [k \in 1..Len(kinds) |-> EntryOf(kinds[k], run, k)]] :
        kinds \in SeqsUpTo(EntryKinds, MaxEntries)}

TrackInfos(run) ==
    {NoInfo} \cup
    {[found |-> TRUE, title |-> "A", entries |-> <<EntryOf(kind, run, 1)>>] :
        kind \in EntryKinds}

\* `not x` for an optional string.
Falsy(x) == x = None \/ x = ""

\* An entry that carries both locators.
ValidEntry(e) == ~Falsy(e.webpage_url) /\ ~Falsy(e.url)

\* As GetTrackMetadata, taking the media locator from the Track row when
\* the store has one for the track, instead of the one just resolved.
GetTrackMetadataStoredUrl(tracks_rows, info) ==
    IF ~info.found
    THEN [raised |-> "ValueError", track |-> NoTrack]
    ELSE LET e == info.entries[1]
             stored == {r \in tracks_rows : r.track_uuid = Uuid5(e.webpage_url)}
         IN
         IF Falsy(e.webpage_url) \/ Falsy(e.url)
         THEN [raised |-> "ValueError", track |-> NoTrack]
         ELSE IF TrackIsTranscribed(tracks_rows, e.webpage_url)
         THEN [raised |-> None, track |-> NoTrack]
         ELSE [raised |-> None,
               track |-> NewTrack(e.webpage_url, e.title,
                                  IF stored = {} THEN e.url
                                  ELSE (CHOOSE r \in stored : TRUE).download_url,
                                  e.uploader, e.duration, NoneInt, None, None)]

\* SoundcloudDownloaderService._get_track_metadata.  Result
\* [raised, track]; track = NoTrack is the None return.
GetTrackMetadata(tracks_rows, info) ==
    IF ~info.found
    THEN [raised |-> "ValueError", track |-> NoTrack]
    ELSE LET e == info.entries[1] IN
         IF Falsy(e.webpage_url) \/ Falsy(e.url)
         THEN [raised |-> "ValueError", track |-> NoTrack]
         ELSE IF TrackIsTranscribed(tracks_rows, e.webpage_url)
         THEN [raised |-> None, track |-> NoTrack]
         ELSE [raised |-> None,
               track |-> NewTrack(e.webpage_url, e.title, e.url, e.uploader,
                                  e.duration, NoneInt, None, None)]

\* The loop of _get_playlist_tracks_metadata from entry `index` (1-based).
\* playlist_title is assigned to the track only when it is truthy.
RECURSIVE PlaylistLoop(_, _, _, _, _)
PlaylistLoop(tracks_rows, playlist_url, playlist_title, entries, index) ==
    IF index > Len(entries) THEN <<>>
    ELSE LET e == entries[index]
             rest == PlaylistLoop(tracks_rows, playlist_url, playlist_title,
                                  entries, index + 1)
         IN  IF Falsy(e.webpage_url) \/ Falsy(e.url) THEN rest
             ELSE IF TrackIsTranscribed(tracks_rows, e.webpage_url) THEN rest
             ELSE <<NewTrack(e.webpage_url, e.title, e.url, e.uploader,
                             e.duration, index, playlist_url,
                             IF Falsy(playlist_title) THEN None
                             ELSE playlist_title)>> \o rest

\* SoundcloudDownloaderService._get_playlist_tracks_metadata.
GetPlaylistTracksMetadata(tracks_rows, playlist_url, info) ==
    IF ~info.found THEN <<>>
    ELSE IF info.entries = <<>> THEN <<>>
    ELSE PlaylistLoop(tracks_rows, playlist_url, info.title, info.entries, 1)

(***************************************************************************)
(* Fetch Stage.                                                            *)
(***************************************************************************)

\* As DownloadTrack, without the test that skips the fetch when the artifact
\* is already there.
DownloadTrackAlways(track, audio_files, produced) ==
    LET output_file_path == UniqueAudioFilePath(track.webpage_url)
        after == IF produced
                 THEN [audio_files EXCEPT ![output_file_path] = track.download_url]
                 ELSE audio_files
    IN  IF after[output_file_path] = NoFile
        THEN [raised |-> "FileNotFoundError", track |-> track,
              audio_files |-> after, fetched |-> <<track.download_url>>]
        ELSE [raised |-> None,
              track |-> [track EXCEPT !.audio_file_path = output_file_path,
                                      !.status = DOWNLOADED],
              audio_files |-> after, fetched |-> <<track.download_url>>]

\* As DownloadTrack, without the check that the artifact exists after the
\* external fetch.
DownloadTrackNoCheck(track, audio_files, produced) ==
    LET output_file_path == UniqueAudioFilePath(track.webpage_url)
        exists == audio_files[output_file_path] # NoFile
        after == IF ~exists /\ produced
                 THEN [audio_files EXCEPT ![output_file_path] = track.download_url]
                 ELSE audio_files
    IN  [raised |-> None,
         track |-> [track EXCEPT !.audio_file_path = output_file_path,
                                 !.status = DOWNLOADED],
         audio_files |-> after,
         fetched |-> IF exists THEN <<>> ELSE <<track.download_url>>]

\* As DownloadTrack, deriving the recorded path from the track's uuid
\* instead of unique_audio_file_path.
DownloadTrackUuidPath(track, audio_files, produced) ==
    LET output_file_path == UniqueAudioFilePath(track.webpage_url)
        exists == audio_files[output_file_path] # NoFile
        after == IF ~exists /\ produced
                 THEN [audio_files EXCEPT ![output_file_path] = track.download_url]
                 ELSE audio_files
        fetched == IF exists THEN <<>> ELSE <<track.download_url>>
    IN  IF ~exists /\ after[output_file_path] = NoFile
        THEN [raised |-> "FileNotFoundError", track |-> track,
              audio_files |-> after, fetched |-> fetched]
        ELSE [raised |-> None,
              track |-> [track EXCEPT
                            !.audio_file_path = AUDIO_DIR \o track.uuid \o ".wav",
                            !.status = DOWNLOADED],
              audio_files |-> after, fetched |-> fetched]

\* SoundcloudDownloaderService._download_track.  audio_files maps a path to
\* the bytes stored there (named by the media URL they came from) or NoFile;
\* `produced` is whether the external fetch leaves the artifact behind.
\* Result [raised, track, audio_files, fetched]: fetched is the sequence of
\* media URLs handed to the external fetch.
DownloadTrack(track, audio_files, produced) ==
    LET output_file_path == UniqueAudioFilePath(track.webpage_url)
        exists == audio_files[output_file_path] # NoFile
        after == IF ~exists /\ produced
                 THEN [audio_files EXCEPT ![output_file_path] = track.download_url]
                 ELSE audio_files
        fetched == IF exists THEN <<>> ELSE <<track.download_url>>
    IN  IF ~exists /\ after[output_file_path] = NoFile
        THEN [raised |-> "FileNotFoundError", track |-> track,
              audio_files |-> after, fetched |-> fetched]
        ELSE [raised |-> None,
              track |-> [track EXCEPT !.audio_file_path = output_file_path,
                                      !.status = DOWNLOADED],
              audio_files |-> after, fetched |-> fetched]

(***************************************************************************)
(* Transcribe Stage.                                                       *)
(***************************************************************************)

\* Aligned results the transcription capability can return: a sequence of
\* segments, each with start, end and text, and possibly chars.
SegPlain == [start |-> 0, end |-> 1, text |-> " hi "]
SegChars == [start |-> 1, end |-> 2, text |-> "yo", chars |-> "c"]
AlignedResults ==
    {[segments |-> <<SegPlain>>], [segments |-> <<SegChars, SegPlain>>]}
NoResult == [segments |-> <<>>]

\* What one call of the capability does: return a result or raise.
CapOutcomes ==
    {[ok |-> TRUE, result |-> r] : r \in AlignedResults}
    \cup {[ok |-> FALSE, result |-> NoResult]}

\* A transcript cache file: absent, or the JSON document it holds.
NoJson == [exists |-> FALSE, segments |-> <<>>]
JsonOf(aligned_result) == [exists |-> TRUE, segments |-> aligned_result.segments]

\* str.strip() on the segment texts of the model.
Strip(text) == IF text = " hi " THEN "hi" ELSE text

\* The text written by _save_aligned_transcript_as_raw_text.
RECURSIVE RawText(_)
RawText(segments) ==
    IF segments = <<>> THEN ""
    ELSE Strip(Head(segments).text) \o "\n" \o RawText(Tail(segments))

\* As SetDefaultChars, assigning segment["chars"] = None instead of
\* setdefault.
SetCharsNone(segments) ==
    [k \in 1..Len(segments) |->
        [start |-> segments[k].start, end |-> segments[k].end,
         text |-> segments[k].text, chars |-> None]]

\* segment.setdefault("chars", None) over all segments.
SetDefaultChars(segments) ==
    [k \in 1..Len(segments) |->
        IF "chars" \in DOMAIN segments[k] THEN segments[k]
        ELSE [start |-> segments[k].start, end |-> segments[k].end,
              text |-> segments[k].text, chars |-> None]]

\* The ValueError of _perform_transcription_and_alignment (lines 97-100) and
\* the ValueError of BaseModel.__setattr__ for a name that is not a field.
AudioFileError == "ValueError: Audio file path not set or file does not exist"
NoFieldError == "ValueError: object has no field"

\* WhiserXTranscriberService._perform_transcription_and_alignment.
\* Result [raised, result, called].
PerformTranscriptionAndAlignment(track, audio_files, cap) ==
    IF \/ Falsy(track.audio_file_path)
       \/ track.audio_file_path \notin DOMAIN audio_files
       \/ audio_files[track.audio_file_path] = NoFile
    THEN [raised |-> AudioFileError, result |-> NoResult, called |-> FALSE]
    ELSE IF ~cap.ok
    THEN [raised |-> "RuntimeError", result |-> NoResult, called |-> TRUE]
    ELSE [raised |-> None, result |-> cap.result, called |-> TRUE]

\* As TranscribeAudio, opening the cache file for writing before the
\* transcription is computed, so that a failed call leaves an empty document.
TranscribeAudioOpensFirst(track, save_to_disk, audio_files, json_files, txt_files, save_directory_exists, cap) ==
    LET output_file_path == UniqueTranscriptFilePath(track.webpage_url, "json")
        raw_path == UniqueTranscriptFilePath(track.webpage_url, "txt")
        cached == save_to_disk /\ json_files[output_file_path].exists
        perf == PerformTranscriptionAndAlignment(track, audio_files, cap)
        loaded == [segments |-> json_files[output_file_path].segments]
        aligned == IF cached THEN loaded ELSE perf.result
        json_after ==
            IF save_to_disk /\ ~cached
            THEN [json_files EXCEPT ![output_file_path] = JsonOf(aligned)]
            ELSE json_files
        txt_after ==
            IF save_to_disk /\ (~cached \/ txt_files[raw_path] = NoFile)
            THEN [txt_files EXCEPT ![raw_path] = RawText(aligned.segments)]
            ELSE txt_files
        normalised == [segments |-> SetDefaultChars(aligned.segments)]
        transcript == NewTranscript(Uuid5(track.webpage_url), normalised)
    IN  IF ~cached /\ perf.raised # None
        THEN [raised |-> perf.raised, track |-> track,
              transcript |-> NoTranscript, attached |-> FALSE,
              aligned_result |-> NoResult,
              json_files |-> IF save_to_disk /\ save_directory_exists
                             THEN [json_files EXCEPT ![output_file_path] =
                                                         JsonOf(NoResult)]
                             ELSE json_files,
              txt_files |-> txt_files, called |-> perf.called]
        ELSE IF save_to_disk /\ ~cached /\ ~save_directory_exists
        THEN [raised |-> "FileNotFoundError", track |-> track,
              transcript |-> NoTranscript, attached |-> FALSE,
              aligned_result |-> perf.result, json_files |-> json_files,
              txt_files |-> txt_files, called |-> TRUE]
        ELSE IF ~SetAttrAllowed(TrackFields, "transcript")
        THEN [raised |-> NoFieldError, track |-> track,
              transcript |-> NoTranscript, attached |-> FALSE,
              aligned_result |-> normalised, json_files |-> json_after,
              txt_files |-> txt_after, called |-> ~cached]
        ELSE [raised |-> None,
              track |-> [track EXCEPT !.status = TRANSCRIBED],
              transcript |-> transcript, attached |-> TRUE,
              aligned_result |-> normalised, json_files |-> json_after,
              txt_files |-> txt_after, called |-> ~cached]

\* As TranscribeAudio, writing the plain-text rendering on a cache hit
\* only, not after a fresh transcription.
TranscribeAudioNoRawText(track, save_to_disk, audio_files, json_files, txt_files, save_directory_exists, cap) ==
    LET output_file_path == UniqueTranscriptFilePath(track.webpage_url, "json")
        raw_path == UniqueTranscriptFilePath(track.webpage_url, "txt")
        cached == save_to_disk /\ json_files[output_file_path].exists
        perf == PerformTranscriptionAndAlignment(track, audio_files, cap)
        loaded == [segments |-> json_files[output_file_path].segments]
        aligned == IF cached THEN loaded ELSE perf.result
        json_after ==
            IF save_to_disk /\ ~cached
            THEN [json_files EXCEPT ![output_file_path] = JsonOf(aligned)]
            ELSE json_files
        txt_after ==
            IF cached /\ txt_files[raw_path] = NoFile
            THEN [txt_files EXCEPT ![raw_path] = RawText(aligned.segments)]
            ELSE txt_files
        normalised == [segments |-> SetDefaultChars(aligned.segments)]
        transcript == NewTranscript(Uuid5(track.webpage_url), normalised)
    IN  IF ~cached /\ perf.raised # None
        THEN [raised |-> perf.raised, track |-> track,
              transcript |-> NoTranscript, attached |-> FALSE,
              aligned_result |-> NoResult, json_files |-> json_files,
              txt_files |-> txt_files, called |-> perf.called]
        ELSE IF save_to_disk /\ ~cached /\ ~save_directory_exists
        THEN [raised |-> "FileNotFoundError", track |-> track,
              transcript |-> NoTranscript, attached |-> FALSE,
              aligned_result |-> perf.result, json_files |-> json_files,
              txt_files |-> txt_files, called |-> TRUE]
        ELSE IF ~SetAttrAllowed(TrackFields, "transcript")
        THEN [raised |-> NoFieldError, track |-> track,
              transcript |-> NoTranscript, attached |-> FALSE,
              aligned_result |-> normalised, json_files |-> json_after,
              txt_files |-> txt_after, called |-> ~cached]
        ELSE [raised |-> None,
              track |-> [track EXCEPT !.status = TRANSCRIBED],
              transcript |-> transcript, attached |-> TRUE,
              aligned_result |-> normalised, json_files |-> json_after,
              txt_files |-> txt_after, called |-> ~cached]

\* WhiserXTranscriberService.transcribe_audio.  Result
\* [raised, track, transcript, attached, aligned_result, json_files,
\* txt_files, called]: raised = None is a normal return of (track,
\* transcript); attached is whether track.transcript is the transcript;
\* aligned_result is the local of that name when the call ends; called is
\* whether the transcription capability was invoked.  Nothing in the
\* service creates save_directory: open(output_path, "w") in
\* _save_aligned_trasncript raises FileNotFoundError when it is not there.
TranscribeAudio(track, save_to_disk, audio_files, json_files, txt_files, save_directory_exists, cap) ==
    LET output_file_path == UniqueTranscriptFilePath(track.webpage_url, "json")
        raw_path == UniqueTranscriptFilePath(track.webpage_url, "txt")
        cached == save_to_disk /\ json_files[output_file_path].exists
        perf == PerformTranscriptionAndAlignment(track, audio_files, cap)
        loaded == [segments |-> json_files[output_file_path].segments]
        aligned == IF cached THEN loaded ELSE perf.result
        json_after ==
            IF save_to_disk /\ ~cached
            THEN [json_files EXCEPT ![output_file_path] = JsonOf(aligned)]
            ELSE json_files
        txt_after ==
            IF save_to_disk /\ (~cached \/ txt_files[raw_path] = NoFile)
            THEN [txt_files EXCEPT ![raw_path] = RawText(aligned.segments)]
            ELSE txt_files
        normalised == [segments |-> SetDefaultChars(aligned.segments)]
        transcript == NewTranscript(Uuid5(track.webpage_url), normalised)
    IN  IF ~cached /\ perf.raised # None
        THEN [raised |-> perf.raised, track |-> track,
              transcript |-> NoTranscript, attached |-> FALSE,
              aligned_result |-> NoResult, json_files |-> json_files,
              txt_files |-> txt_files, called |-> perf.called]
        ELSE IF save_to_disk /\ ~cached /\ ~save_directory_exists
        THEN [raised |-> "FileNotFoundError", track |-> track,
              transcript |-> NoTranscript, attached |-> FALSE,
              aligned_result |-> perf.result, json_files |-> json_files,
              txt_files |-> txt_files, called |-> TRUE]
        ELSE IF ~SetAttrAllowed(TrackFields, "transcript")
        THEN [raised |-> NoFieldError, track |-> track,
              transcript |-> NoTranscript, attached |-> FALSE,
              aligned_result |-> normalised, json_files |-> json_after,
              txt_files |-> txt_after, called |-> ~cached]
        ELSE [raised |-> None,
              track |-> [track EXCEPT !.status = TRANSCRIBED],
              transcript |-> transcript, attached |-> TRUE,
              aligned_result |-> normalised, json_files |-> json_after,
              txt_files |-> txt_after, called |-> ~cached]

(***************************************************************************)
(* State.                                                                  *)
(***************************************************************************)
VARIABLES
    tracks_rows,       \* the tracks table
    transcripts_rows,  \* the transcripts table
    gateway_raised,    \* what the client's last gateway write raised, or None
    audio_files,       \* AUDIO_DIR: path -> bytes or NoFile
    json_files,        \* TRANSCRIPT_DIR, *.json: path -> document or NoJson
    txt_files,         \* TRANSCRIPT_DIR, *.txt: path -> text or NoFile
    transcript_dir,    \* whether the directory TRANSCRIPT_DIR exists
    pc,                \* position of run(): idle, download, transcribe, done,
                       \* failed; crashed when the entry point ended before run()
    settings,          \* settings.URL and settings.IS_PLAYLIST of the run
    info,              \* what the discovery capability answered in the run
    tracks,            \* the Track objects of the run, in source order
    i,                 \* index in tracks of the track the run is at
    error,             \* the exception that ended the run, or None
    ext_ok,            \* no external capability has failed in the run
    fetch_calls,       \* external fetch calls of the run: [i, url, produced]
    transcribe_calls,  \* external transcription calls of the run: [i, ok]
    stage_log,         \* stage invocations of the run: [op, i, raised]
    audio_writes,      \* path -> number of times an artifact was written there
    at_start,          \* store and disk as they were when the run started
    rerun,             \* the run repeats the request of the run before it
    first_ext_ok,      \* ext_ok of the previous run at its end
    runs,              \* number of runs started
    writes,            \* number of gateway writes made
    call,              \* the last direct call of a stage and how it ended
    gateway_log        \* direct calls of the gateway: [op, arg, fault, raised]

store_vars == <<tracks_rows, transcripts_rows, gateway_raised>>
disk_vars == <<audio_files, json_files, txt_files, transcript_dir, audio_writes>>
run_vars == <<pc, settings, info, tracks, i, error, ext_ok, fetch_calls,
              transcribe_calls, stage_log, at_start, rerun, first_ext_ok, runs>>
vars == <<store_vars, disk_vars, run_vars, writes, call, gateway_log>>

\* No direct call of a stage has been made.
NoCall == [n |-> 0]

JsonPaths == {UniqueTranscriptFilePath(HttpUrl(u), "json") : u \in RawUrls}
TxtPaths == {UniqueTranscriptFilePath(HttpUrl(u), "txt") : u \in RawUrls}

Snapshot ==
    [tracks_rows |-> tracks_rows, transcripts_rows |-> transcripts_rows,
     audio_files |-> audio_files, json_files |-> json_files,
     txt_files |-> txt_files]

\* Before anything has run: an empty store, no artifact and no transcript
\* file; the transcript directory is there or not (nothing in the program
\* calls paths.init_tmp_paths).
Init ==
    /\ tracks_rows = {}
    /\ transcripts_rows = {}
    /\ gateway_raised = None
    /\ audio_files = [p \in AudioPaths |-> NoFile]
    /\ json_files = [p \in JsonPaths |-> NoJson]
    /\ txt_files = [p \in TxtPaths |-> NoFile]
    /\ transcript_dir \in BOOLEAN
    /\ pc = "idle"
    /\ settings = [URL |-> PlaylistUrl, IS_PLAYLIST |-> TRUE]
    /\ info = NoInfo
    /\ tracks = <<>>
    /\ i = 1
    /\ error = None
    /\ ext_ok = TRUE
    /\ fetch_calls = <<>>
    /\ transcribe_calls = <<>>
    /\ stage_log = <<>>
    /\ audio_writes = [p \in AudioPaths |-> 0]
    /\ at_start = Snapshot
    /\ rerun = FALSE
    /\ first_ext_ok = FALSE
    /\ runs = 0
    /\ writes = 0
    /\ call = NoCall
    /\ gateway_log = <<>>

Ended == pc \in {"done", "failed"}

(***************************************************************************)
(* Gateway writes, made by a client of the gateway before the pipeline is  *)
(* started (run() itself makes none, and reads the store at discovery      *)
(* only).                                                                  *)
(***************************************************************************)

\* Tracks a client can hand to insert_track: a discovered track at any
\* stage of its life.
StageTrack(raw, url, status) ==
    [NewTrack(raw, "A", url, None, None, NoneInt, None, None)
        EXCEPT !.status = status,
               !.audio_file_path =
                    IF status = PENDING THEN None
                    ELSE UniqueAudioFilePath(HttpUrl(raw))]

GatewayTracks ==
    {StageTrack(raw, MediaUrl(0, 1), st) :
        raw \in RawUrls, st \in TrackProcessingStatus}

\* Transcripts a client can hand to insert_transcript: objects with the
\* three attributes the method reads, and the Transcript of schemas.py as
\* transcribe_audio constructs it.
GatewayTranscripts ==
    [uuid : {Uuid5(raw) : raw \in RawUrls},
     aligned_result : {[segments |-> SetDefaultChars(r.segments)] :
                          r \in AlignedResults},
     embedding : {None}]
    \cup {NewTranscript(Uuid5(HttpUrl(raw)), NoResult) : raw \in RawUrls}

\* PostgresDatabase.insert_track, called with `track`; `reachable` is
\* whether the store can be reached.
UpsertTrack(track, reachable) ==
    /\ pc = "idle"
    /\ writes < MaxWrites
    /\ LET res == InsertTrack(tracks_rows, track,
                              IF reachable THEN NoFault ELSE "connect")
       IN
        /\ tracks_rows' = res.rows
        /\ gateway_raised' = res.raised
    /\ writes' = writes + 1
    /\ UNCHANGED <<transcripts_rows, disk_vars, run_vars, call, gateway_log>>

\* PostgresDatabase.insert_transcript, called with `transcript`.
UpsertTranscript(transcript, reachable) ==
    /\ pc = "idle"
    /\ writes < MaxWrites
    /\ LET res == InsertTranscript(tracks_rows, transcripts_rows, transcript,
                                   IF reachable THEN NoFault ELSE "connect")
       IN
        /\ transcripts_rows' = res.rows
        /\ gateway_raised' = res.raised
    /\ writes' = writes + 1
    /\ UNCHANGED <<tracks_rows, disk_vars, run_vars, call, gateway_log>>

(***************************************************************************)
(* paths.init_tmp_paths(): mkdir(parents=True, exist_ok=True) of the tmp,  *)
(* transcript and audio directories.  Nothing in the program calls it; a   *)
(* caller can, whenever no run and no stage call is under way.  A          *)
(* directory that is there is left as it is, with its files.               *)
(***************************************************************************)
InitTmpPaths ==
    /\ pc \in {"idle", "done", "failed", "stage"}
    /\ transcript_dir' = TRUE
    /\ UNCHANGED <<store_vars, audio_files, json_files, txt_files,
                   audio_writes, run_vars, writes, call, gateway_log>>

(***************************************************************************)
(* The program started through its entry point, `python main.py`.  The     *)
(* block builds the gateway and then reads settings.AUDIO_DIR for the      *)
(* downloader (line 48); Settings declares no such attribute, so the       *)
(* process ends with AttributeError before a service exists and before     *)
(* run() is called: no capability is called, nothing is written.           *)
(***************************************************************************)
Main ==
    /\ pc = "idle"
    /\ pc' = "crashed"
    /\ error' = "AttributeError"
    /\ UNCHANGED <<store_vars, disk_vars, settings, info, tracks, i, ext_ok,
                   fetch_calls, transcribe_calls, stage_log, at_start, rerun,
                   first_ext_ok, runs, writes, call, gateway_log>>

(***************************************************************************)
(* main.run, called with a gateway, a downloader standing on AUDIO_DIR and *)
(* a transcriber standing on TRANSCRIPT_DIR, in steps: discovery, then one *)
(* step per track and stage.                                               *)
(***************************************************************************)

\* Requests: a playlist URL, or the URL of one track.
TrackUrls == {HttpUrl(u) : u \in RawUrls}

\* What discovery can answer for a request: for a track URL, nothing or the
\* track's own page under one of its spellings.
InfosFor(s, run) ==
    IF s.IS_PLAYLIST THEN PlaylistInfos(run)
    ELSE {n \in TrackInfos(run) :
            n.found => \/ n.entries[1].webpage_url = None
                       \/ HttpUrl(n.entries[1].webpage_url) = s.URL}

Requests ==
    {[URL |-> PlaylistUrl, IS_PLAYLIST |-> TRUE]}
    \cup {[URL |-> u, IS_PLAYLIST |-> FALSE] : u \in TrackUrls}

\* The request and the discovery answer (s, n) repeat those of the run
\* that has just ended: the same URL, and the same entries up to their
\* media locators, which are resolved anew.
SameRequest(s, n) ==
    /\ s = settings
    /\ n.found = info.found
    /\ Len(n.entries) = Len(info.entries)
    /\ \A k \in 1..Len(n.entries) :
          /\ n.entries[k].webpage_url = info.entries[k].webpage_url
          /\ (n.entries[k].url = None) = (info.entries[k].url = None)

\* run(), lines 20-26, up to the end of metadata discovery in
\* download_playlist / download_track.  The first run takes any request;
\* a later run repeats the request of the run that has just ended.
RunDiscoverWith(s, n) ==
    /\ settings' = s
    /\ info' = n
    /\ runs' = runs + 1
    /\ rerun' = Ended
    /\ first_ext_ok' = (Ended /\ ext_ok)
    /\ at_start' = Snapshot
    /\ ext_ok' = TRUE
    /\ fetch_calls' = <<>>
    /\ transcribe_calls' = <<>>
    /\ stage_log' = <<>>
    /\ i' = 1
    /\ IF s.IS_PLAYLIST
       THEN LET ts == GetPlaylistTracksMetadata(tracks_rows, s.URL, n) IN
            /\ tracks' = ts
            /\ error' = None
            /\ pc' = IF ts = <<>> THEN "done" ELSE "download"
       ELSE LET md == GetTrackMetadata(tracks_rows, n) IN
            IF md.raised # None
            THEN tracks' = <<>> /\ error' = md.raised /\ pc' = "failed"
            ELSE IF md.track = NoTrack
            THEN tracks' = <<>> /\ error' = "Exception" /\ pc' = "failed"
            ELSE tracks' = <<md.track>> /\ error' = None /\ pc' = "download"
    /\ gateway_raised' = None  \* the client's exception is not the run's
    /\ UNCHANGED <<tracks_rows, transcripts_rows, disk_vars, writes, call,
                   gateway_log>>

RunDiscover ==
    /\ pc = "idle" \/ Ended
    /\ runs < MaxRuns
    /\ \E s \in Requests : \E n \in InfosFor(s, runs + 1) :
          /\ pc = "idle" \/ SameRequest(s, n)
          /\ RunDiscoverWith(s, n)

\* As DownloadStep, with the exception of _download_track caught and logged
\* inside the loop, so that the loop goes on to the next track.
DownloadStepContinue(produced) ==
    /\ pc = "download"
    /\ LET res == DownloadTrack(tracks[i], audio_files, produced)
           path == UniqueAudioFilePath(tracks[i].webpage_url)
       IN
        /\ tracks' = [tracks EXCEPT ![i] = res.track]
        /\ audio_files' = res.audio_files
        /\ audio_writes' =
              IF res.audio_files[path] # audio_files[path] \/
                 (res.fetched # <<>> /\ produced)
              THEN [audio_writes EXCEPT ![path] = @ + 1]
              ELSE audio_writes
        /\ fetch_calls' = fetch_calls \o
              [k \in 1..Len(res.fetched) |->
                  [i |-> i, url |-> res.fetched[k], produced |-> produced]]
        /\ stage_log' = Append(stage_log,
                               [op |-> "fetch", i |-> i, raised |-> res.raised])
        /\ ext_ok' = (ext_ok /\ (res.fetched = <<>> \/ produced))
        /\ error' = None
        /\ IF i < Len(tracks)
           THEN pc' = "download" /\ i' = i + 1
           ELSE pc' = "transcribe" /\ i' = 1
    /\ UNCHANGED <<store_vars, json_files, txt_files, transcript_dir,
                   transcribe_calls,
                   settings, info, at_start, rerun, first_ext_ok, runs,
                   writes, call, gateway_log>>

\* One iteration of the loop of download_playlist, or the _download_track
\* call of download_track.
DownloadStep(produced) ==
    /\ pc = "download"
    /\ LET res == DownloadTrack(tracks[i], audio_files, produced)
           path == UniqueAudioFilePath(tracks[i].webpage_url)
       IN
        /\ tracks' = [tracks EXCEPT ![i] = res.track]
        /\ audio_files' = res.audio_files
        /\ audio_writes' =
              IF res.audio_files[path] # audio_files[path] \/
                 (res.fetched # <<>> /\ produced)
              THEN [audio_writes EXCEPT ![path] = @ + 1]
              ELSE audio_writes
        /\ fetch_calls' = fetch_calls \o
              [k \in 1..Len(res.fetched) |->
                  [i |-> i, url |-> res.fetched[k], produced |-> produced]]
        /\ stage_log' = Append(stage_log,
                               [op |-> "fetch", i |-> i, raised |-> res.raised])
        /\ ext_ok' = (ext_ok /\ (res.fetched = <<>> \/ produced))
        /\ IF res.raised # None
           THEN error' = res.raised /\ pc' = "failed" /\ i' = i
           ELSE /\ error' = None
                /\ IF i < Len(tracks)
                   THEN pc' = "download" /\ i' = i + 1
                   ELSE pc' = "transcribe" /\ i' = 1
    /\ UNCHANGED <<store_vars, json_files, txt_files, transcript_dir,
                   transcribe_calls,
                   settings, info, at_start, rerun, first_ext_ok, runs,
                   writes, call, gateway_log>>

\* One iteration of the loop of run(), lines 28-33.
TranscribeStep(cap) ==
    /\ pc = "transcribe"
    /\ LET res == TranscribeAudio(tracks[i], TRUE, audio_files, json_files,
                                  txt_files, transcript_dir, cap)
       IN
        /\ tracks' = [tracks EXCEPT ![i] = res.track]
        /\ json_files' = res.json_files
        /\ txt_files' = res.txt_files
        /\ transcribe_calls' =
              IF res.called
              THEN Append(transcribe_calls, [i |-> i, ok |-> cap.ok])
              ELSE transcribe_calls
        /\ stage_log' = Append(stage_log,
                               [op |-> "transcribe", i |-> i,
                                raised |-> res.raised])
        /\ ext_ok' = (ext_ok /\ (~res.called \/ cap.ok))
        /\ IF res.raised # None
           THEN error' = res.raised /\ pc' = "failed" /\ i' = i
           ELSE /\ error' = None
                /\ IF i < Len(tracks)
                   THEN pc' = "transcribe" /\ i' = i + 1
                   ELSE pc' = "done" /\ i' = i
    /\ UNCHANGED <<store_vars, audio_files, audio_writes, transcript_dir,
                   fetch_calls,
                   settings, info, at_start, rerun, first_ext_ok, runs,
                   writes, call, gateway_log>>

Next ==
    \/ \E t \in GatewayTracks, reachable \in BOOLEAN : UpsertTrack(t, reachable)
    \/ \E t \in GatewayTranscripts, reachable \in BOOLEAN :
          UpsertTranscript(t, reachable)
    \/ Main
    \/ InitTmpPaths
    \/ RunDiscover
    \/ \E produced \in BOOLEAN : DownloadStep(produced)
    \/ \E cap \in CapOutcomes : TranscribeStep(cap)

Spec == Init /\ [][Next]_vars

(***************************************************************************)
(* The Transcribe Stage called on its own: transcribe_audio is a public    *)
(* method, and a caller can hand it any track, with either value of        *)
(* save_to_disk, whatever the directories hold.                            *)
(***************************************************************************)
MaxCalls == 2

\* Tracks a caller can hand to transcribe_audio: as discovery built them,
\* or as the Fetch Stage returned them.
StageTracks ==
    {StageTrack(raw, MediaUrl(0, 1), st) :
        raw \in RawUrls, st \in {PENDING, DOWNLOADED}}

\* What the directories can hold when the stage is called: an artifact or
\* none, a transcript cache written by an earlier call or none, a
\* plain-text rendering or none.
StageInit ==
    /\ tracks_rows = {}
    /\ transcripts_rows = {}
    /\ gateway_raised = None
    /\ audio_files \in [AudioPaths -> {NoFile, HttpUrl(MediaUrl(0, 1))}]
    /\ json_files \in [JsonPaths -> {NoJson} \cup {JsonOf(r) : r \in AlignedResults}]
    /\ txt_files \in [TxtPaths -> {NoFile, "old\n"}]
    /\ transcript_dir \in BOOLEAN
    /\ ~transcript_dir =>
          /\ \A p \in JsonPaths : json_files[p] = NoJson
          /\ \A p \in TxtPaths : txt_files[p] = NoFile
    /\ pc = "stage"
    /\ settings = [URL |-> PlaylistUrl, IS_PLAYLIST |-> TRUE]
    /\ info = NoInfo
    /\ tracks \in {<<t>> : t \in StageTracks}
    /\ i = 1
    /\ error = None
    /\ ext_ok = TRUE
    /\ fetch_calls = <<>>
    /\ transcribe_calls = <<>>
    /\ stage_log = <<>>
    /\ audio_writes = [p \in AudioPaths |-> 0]
    /\ at_start = Snapshot
    /\ rerun = FALSE
    /\ first_ext_ok = FALSE
    /\ runs = 0
    /\ writes = 0
    /\ call = NoCall
    /\ gateway_log = <<>>

\* transcribe_audio(track, save_to_disk), called on tracks[1].  at_start
\* keeps the directories as they were when the call was made.
StageTranscribe(save_to_disk, cap) ==
    /\ pc = "stage"
    /\ call.n < MaxCalls
    /\ LET res == TranscribeAudio(tracks[1], save_to_disk, audio_files,
                                  json_files, txt_files, transcript_dir, cap)
       IN
        /\ tracks' = <<res.track>>
        /\ json_files' = res.json_files
        /\ txt_files' = res.txt_files
        /\ error' = res.raised
        /\ call' = [n |-> call.n + 1,
                    save_to_disk |-> save_to_disk,
                    save_directory_exists |-> transcript_dir,
                    before |-> tracks[1],
                    raised |-> res.raised,
                    track |-> res.track,
                    transcript |-> res.transcript,
                    attached |-> res.attached,
                    aligned_result |-> res.aligned_result,
                    cap |-> cap,
                    invoked |-> IF res.called THEN 1 ELSE 0]
    /\ at_start' = Snapshot
    /\ UNCHANGED <<store_vars, audio_files, audio_writes, transcript_dir, pc,
                   settings, info,
                   i, ext_ok, fetch_calls, transcribe_calls, stage_log, rerun,
                   first_ext_ok, runs, writes, gateway_log>>

StageNext ==
    \/ InitTmpPaths
    \/ \E save_to_disk \in BOOLEAN, cap \in CapOutcomes :
          StageTranscribe(save_to_disk, cap)

StageSpec == StageInit /\ [][StageNext]_vars

(***************************************************************************)
(* The Persistence Gateway called on its own, by any client: every call is *)
(* logged with its argument, and at_start keeps the store as it was when   *)
(* the last call was made.                                                 *)
(***************************************************************************)

MaxGatewayCalls == 3

\* Webpage URLs of the tracks handed to the gateway: those of RawUrls and
\* the spelling of the first with its root path, which HttpUrl maps to the
\* same canonical URL.
StoreUrls == RawUrls \cup {"https://x.io/"}

\* Tracks handed to insert_track: a track at any stage of its life, or a
\* track of a playlist as discovery built it.
StoreTracks ==
    {StageTrack(raw, MediaUrl(0, 1), DOWNLOADED) : raw \in StoreUrls}
    \cup {NewTrack("https://x.io/b", "B", MediaUrl(0, 2), "up", None, 1,
                   PlaylistUrl, "P")}

\* Transcripts handed to insert_transcript.
StoreTranscripts ==
    [uuid : {Uuid5(raw) : raw \in RawUrls},
     aligned_result : {[segments |-> SetDefaultChars(r.segments)] :
                          r \in AlignedResults},
     embedding : {None}]
    \cup {NewTranscript(Uuid5(HttpUrl(raw)), NoResult) : raw \in RawUrls}

\* PostgresDatabase.insert_track, called with `track`.
GatewayInsertTrack(track, fault) ==
    /\ pc = "idle"
    /\ Len(gateway_log) < MaxGatewayCalls
    /\ LET res == InsertTrack(tracks_rows, track, fault) IN
        /\ tracks_rows' = res.rows
        /\ gateway_raised' = res.raised
        /\ gateway_log' = Append(gateway_log,
                                 [op |-> "insert_track", arg |-> track,
                                  fault |-> fault, raised |-> res.raised])
    /\ at_start' = Snapshot
    /\ UNCHANGED <<transcripts_rows, disk_vars, pc, settings, info, tracks, i,
                   error, ext_ok, fetch_calls, transcribe_calls, stage_log,
                   rerun, first_ext_ok, runs, writes, call>>

\* PostgresDatabase.insert_transcript, called with `transcript`.
GatewayInsertTranscript(transcript, fault) ==
    /\ pc = "idle"
    /\ Len(gateway_log) < MaxGatewayCalls
    /\ LET res == InsertTranscript(tracks_rows, transcripts_rows, transcript,
                                   fault)
       IN
        /\ transcripts_rows' = res.rows
        /\ gateway_raised' = res.raised
        /\ gateway_log' = Append(gateway_log,
                                 [op |-> "insert_transcript",
                                  arg |-> transcript,
                                  fault |-> fault, raised |-> res.raised])
    /\ at_start' = Snapshot
    /\ UNCHANGED <<tracks_rows, disk_vars, pc, settings, info, tracks, i,
                   error, ext_ok, fetch_calls, transcribe_calls, stage_log,
                   rerun, first_ext_ok, runs, writes, call>>

GatewayNext ==
    \/ \E t \in StoreTracks, fault \in Faults : GatewayInsertTrack(t, fault)
    \/ \E t \in StoreTranscripts, fault \in Faults :
          GatewayInsertTranscript(t, fault)

GatewaySpec == Init /\ [][GatewayNext]_vars

(***************************************************************************)
(* Vocabulary of the properties.                                           *)
(***************************************************************************)

\* resolveId of the specification: the id minted for a canonical URL.
ResolveId(u) == Uuid5(u)

\* The store records u as transcribed or at a later stage.
RecordedTranscribed(rows, u) ==
    \E r \in rows : r.track_uuid = ResolveId(u) /\ r.status \in {TRANSCRIBED, EMBEDDED}

\* Positions of the discovery answer that carry both locators.
ValidPositions == {k \in 1..Len(info.entries) : ValidEntry(info.entries[k])}

\* A run has been started and has come to its end.
RunEnded == runs > 0 /\ Ended

Range(seq) == {seq[k] : k \in 1..Len(seq)}

(***************************************************************************)
(* C1.  When a run in which discovery, fetch and transcription all succeed *)
(* has ended, the store holds, for every valid entry that was not yet      *)
(* transcribed, one Track row with status TRANSCRIBED and one Transcript   *)
(* row whose id is the Track's resolved id.                                *)
(***************************************************************************)
C1_RunPersistsTranscribedTracks ==
    (RunEnded /\ ext_ok) =>
        \A k \in ValidPositions :
            LET u == info.entries[k].webpage_url IN
            ~RecordedTranscribed(at_start.tracks_rows, u) =>
                /\ Cardinality({r \in tracks_rows :
                                  /\ r.track_uuid = ResolveId(u)
                                  /\ r.status = TRANSCRIBED}) = 1
                /\ Cardinality({t \in transcripts_rows :
                                  t.track_uuid = ResolveId(u)}) = 1

(***************************************************************************)
(* C2.  A single-track run whose track is recorded as TRANSCRIBED ends     *)
(* normally: no error, no fetch call, no transcription call, store and     *)
(* disk as they were.                                                      *)
(***************************************************************************)
C2_TranscribedSingleTrackIsNoOp ==
    (/\ RunEnded
     /\ ~settings.IS_PLAYLIST
     /\ ValidPositions = {1}
     /\ \E r \in at_start.tracks_rows :
           /\ r.track_uuid = ResolveId(info.entries[1].webpage_url)
           /\ r.status = TRANSCRIBED)
    => /\ pc = "done"
       /\ error = None
       /\ fetch_calls = <<>>
       /\ transcribe_calls = <<>>
       /\ Snapshot = at_start

\* In the run before this one no external capability failed, and it kept
\* the transcript it made: the run had no track to transcribe, or the cache
\* file of the track it transcribed was there when this run started.
FirstRunKeptItsWork ==
    /\ first_ext_ok
    /\ \/ tracks = <<>>
       \/ at_start.json_files[UniqueTranscriptFilePath(tracks[1].webpage_url,
                                                       "json")].exists

(***************************************************************************)
(* C3.  A run that repeats the request of a run in which no external       *)
(* capability failed and which kept the transcript it made (its cache      *)
(* file is on disk, or the run had no track to transcribe)                 *)
(* leaves the Track and Transcript rows as they were after that run and    *)
(* calls neither the external fetch nor the external transcription.        *)
(* (Every first run that returned normally is such a run.)                 *)
(***************************************************************************)
C3_RerunIsIdempotent ==
    (RunEnded /\ rerun /\ FirstRunKeptItsWork) =>
        /\ tracks_rows = at_start.tracks_rows
        /\ transcripts_rows = at_start.transcripts_rows
        /\ fetch_calls = <<>>
        /\ transcribe_calls = <<>>

\* A repeated run has taken a track through both stages.
C3_Witness ==
    /\ RunEnded /\ rerun /\ FirstRunKeptItsWork
    /\ \E e \in Range(stage_log) : e.op = "fetch"
    /\ \E e \in Range(stage_log) : e.op = "transcribe"

(***************************************************************************)
(* C4.  isTranscribed(u) is true exactly when the store holds a Track row  *)
(* with id resolveId(u) and status TRANSCRIBED or EMBEDDED.                *)
(***************************************************************************)
C4_IsTranscribedIffTranscribedOrLater ==
    \A u \in RawUrls :
        TrackIsTranscribed(tracks_rows, u) <=> RecordedTranscribed(tracks_rows, u)

(***************************************************************************)
(* C5.  isTranscribed(u) is false while the store has no row for u, and    *)
(* true once a run whose capabilities all succeeded has ended, for every   *)
(* url u of a valid entry of that run.                                     *)
(***************************************************************************)
C5_IsTranscribedAfterRun ==
    \A u \in RawUrls :
        /\ (\A r \in tracks_rows : r.track_uuid # ResolveId(u))
              => ~TrackIsTranscribed(tracks_rows, u)
        /\ (/\ RunEnded /\ ext_ok
            /\ \E k \in ValidPositions : info.entries[k].webpage_url = u)
              => TrackIsTranscribed(tracks_rows, u)

(***************************************************************************)
(* C6.  No step moves the status of a Track object of the run, or the      *)
(* status stored in a Track row, to an earlier stage.                      *)
(***************************************************************************)
C6_StatusNeverRegresses ==
    [][/\ \A r \in tracks_rows : \A r2 \in tracks_rows' :
            r.track_uuid = r2.track_uuid =>
                StatusRank(r2.status) >= StatusRank(r.status)
       /\ (pc \in {"download", "transcribe"}) =>
            \A k \in 1..Len(tracks) :
                StatusRank(tracks'[k].status) >= StatusRank(tracks[k].status)
      ]_vars

(***************************************************************************)
(* C7.  Every Track row with status TRANSCRIBED has a Transcript row with  *)
(* the same track id.                                                      *)
(***************************************************************************)
C7_TranscribedRowHasTranscript ==
    \A r \in tracks_rows :
        r.status = TRANSCRIBED =>
            \E t \in transcripts_rows : t.track_uuid = r.track_uuid

(***************************************************************************)
(* C8.  The external fetch is called only when no artifact is at the       *)
(* track's path; an artifact, once there, is never rewritten; at most one  *)
(* artifact is ever written for a track id.                                *)
(***************************************************************************)
C8_ArtifactWrittenOnce ==
    [][/\ \A p \in AudioPaths :
            audio_files[p] # NoFile => audio_files'[p] = audio_files[p]
       /\ \A u \in RawUrls :
            audio_writes'[UniqueAudioFilePath(HttpUrl(u))] <= 1
       /\ (pc = "download" /\ fetch_calls' # fetch_calls) =>
            audio_files[UniqueAudioFilePath(tracks[i].webpage_url)] = NoFile
      ]_vars

\* The Fetch Stage has run in a repeated run, on artifacts that were there.
C8_Witness ==
    /\ rerun
    /\ \E e \in Range(stage_log) : e.op = "fetch" /\ e.raised = None
    /\ fetch_calls = <<>>
    /\ \E p \in AudioPaths : audio_writes[p] = 1

(***************************************************************************)
(* C9.  When the external fetch returned and left no artifact, the run has *)
(* failed with that error at that track: the track is still PENDING with   *)
(* no audio_file_path, the fetch was the last one of the run, and the      *)
(* Transcribe Stage has not been run for the track.                        *)
(***************************************************************************)
C9_NoArtifactIsFatal ==
    \A n \in 1..Len(fetch_calls) :
        ~fetch_calls[n].produced =>
            LET c == fetch_calls[n] IN
            /\ pc = "failed"
            /\ error = "FileNotFoundError"
            /\ i = c.i
            /\ tracks[c.i].status = PENDING
            /\ tracks[c.i].audio_file_path = None
            /\ n = Len(fetch_calls)
            /\ \A m \in 1..Len(fetch_calls) : fetch_calls[m].i = c.i => m = n
            /\ \A e \in Range(stage_log) :
                  e.op = "transcribe" => tracks[e.i].uuid # tracks[c.i].uuid

\* A fetch that left no artifact has ended a run at its second track.
C9_Witness ==
    /\ pc = "failed"
    /\ error = "FileNotFoundError"
    /\ i = 2
    /\ ~fetch_calls[Len(fetch_calls)].produced

(***************************************************************************)
(* C10.  A track the Fetch Stage has returned has status DOWNLOADED (until *)
(* the Transcribe Stage returns it), its audio_file_path is the path       *)
(* unique_audio_file_path gives for its webpage URL, and an artifact is at *)
(* that path.                                                              *)
(***************************************************************************)
C10_FetchPostcondition ==
    \A e \in Range(stage_log) :
        (e.op = "fetch" /\ e.raised = None) =>
            LET t == tracks[e.i] IN
            /\ \/ t.status = DOWNLOADED
               \/ \E e2 \in Range(stage_log) :
                     e2.op = "transcribe" /\ e2.i = e.i /\ e2.raised = None
            /\ t.audio_file_path = UniqueAudioFilePath(t.webpage_url)
            /\ audio_files[t.audio_file_path] # NoFile

\* The Fetch Stage has returned a track, once after a fetch and once
\* without one.
C10_Witness ==
    /\ Len(stage_log) >= 2
    /\ stage_log[1].op = "fetch" /\ stage_log[1].raised = None
    /\ stage_log[2].op = "fetch" /\ stage_log[2].raised = None
    /\ Len(fetch_calls) = 1

(***************************************************************************)
(* Vocabulary of the properties of a direct stage call.                    *)
(***************************************************************************)

\* A direct call of the Transcribe Stage has been made and has ended.
Called == call.n > 0

\* The precondition of the Transcribe Stage held for the track of the last
\* call: audio_file_path was set and an artifact was there.
HadArtifact ==
    /\ call.before.audio_file_path # None
    /\ call.before.audio_file_path \in DOMAIN at_start.audio_files
    /\ at_start.audio_files[call.before.audio_file_path] # NoFile

\* The cache paths of the track of the last call, and whether a cached
\* transcript was there when the call was made.
CallJsonPath == UniqueTranscriptFilePath(call.before.webpage_url, "json")
CallTxtPath == UniqueTranscriptFilePath(call.before.webpage_url, "txt")
HadCache == at_start.json_files[CallJsonPath].exists

\* The last call returned (track, transcript).
Returned == Called /\ call.raised = None

(***************************************************************************)
(* C11.  A Transcribe Stage call on a track whose audio_file_path is unset *)
(* or whose artifact does not exist raises the precondition error and does *)
(* not return a track with status TRANSCRIBED, for both values of          *)
(* save_to_disk and with or without a cached transcript.                   *)
(***************************************************************************)
C11_NoArtifactIsPreconditionError ==
    (Called /\ ~HadArtifact) =>
        /\ call.raised = AudioFileError
        /\ call.track.status # TRANSCRIBED

(***************************************************************************)
(* C12.  A Transcribe Stage call that is stopped neither by the            *)
(* precondition error nor by a failure of the capability returns, and what *)
(* it returns is a Track with status TRANSCRIBED that has the returned     *)
(* Transcript attached, the Transcript's id being the Track's resolved id  *)
(* (the uuid minted at discovery).                                         *)
(***************************************************************************)
C12_StagePostcondition ==
    (Called /\ call.raised \notin {AudioFileError, "RuntimeError"}) =>
        /\ Returned
        /\ call.track.status = TRANSCRIBED
        /\ call.attached
        /\ "uuid" \in DOMAIN call.transcript
        /\ call.transcript.uuid = call.track.uuid

\* The segments of the transcript cached for the track of the last call
\* when the call was made.
CachedSegments == at_start.json_files[CallJsonPath].segments

\* What a cache hit does to the capability and to the cache directory: no
\* invocation, the cached transcript as it was, the plain-text rendering
\* there, generated from the cache if it was absent and as it was if not.
CacheHitEffects ==
    /\ call.invoked = 0
    /\ json_files[CallJsonPath] = at_start.json_files[CallJsonPath]
    /\ txt_files[CallTxtPath] # NoFile
    /\ at_start.txt_files[CallTxtPath] # NoFile =>
          txt_files[CallTxtPath] = at_start.txt_files[CallTxtPath]
    /\ at_start.txt_files[CallTxtPath] = NoFile =>
          txt_files[CallTxtPath] = RawText(CachedSegments)

(***************************************************************************)
(* C13.  A Transcribe Stage call with save_to_disk, made while a cached    *)
(* transcript is at the track's cache path, does not invoke the            *)
(* capability, returns the cached aligned result (in the Transcript it     *)
(* returns), leaves the cached transcript as it was, and leaves the        *)
(* plain-text rendering there: generated if it was absent, untouched if    *)
(* it was present.                                                         *)
(***************************************************************************)
C13_CacheHitReturnsCached ==
    (Called /\ call.save_to_disk /\ HadCache) =>
        /\ CacheHitEffects
        /\ Returned
        /\ "aligned_result" \in DOMAIN call.transcript
        /\ call.transcript.aligned_result.segments =
              SetDefaultChars(CachedSegments)

(***************************************************************************)
(* C14.  A Transcribe Stage call made while no cached transcript is at the *)
(* track's cache path invokes the capability exactly once, and the         *)
(* structured result and its plain-text rendering are both at the cache    *)
(* path when the call ends.                                                *)
(***************************************************************************)
C14_NoCacheComputesAndPersists ==
    (Called /\ ~HadCache) =>
        /\ call.invoked = 1
        /\ json_files[CallJsonPath].exists
        /\ txt_files[CallTxtPath] # NoFile

(***************************************************************************)
(* C14, amended.  A Transcribe Stage call with save_to_disk on a track     *)
(* whose artifact exists, made while no cached transcript is at the cache  *)
(* path, invokes the capability exactly once; if the capability answers    *)
(* and the transcript directory exists at the call, the result it gave and *)
(* the plain-text rendering of that result are both at the cache path when *)
(* the call ends.                                                          *)
(***************************************************************************)
C14_NoCachePersistsWhenAsked ==
    (Called /\ call.save_to_disk /\ HadArtifact /\ ~HadCache) =>
        /\ call.invoked = 1
        /\ (call.cap.ok /\ call.save_directory_exists) =>
              /\ json_files[CallJsonPath] = JsonOf(call.cap.result)
              /\ txt_files[CallTxtPath] = RawText(call.cap.result.segments)

\* A call has computed a transcript and left both files, where an old
\* plain-text rendering was.
C14_Witness ==
    /\ Called /\ call.save_to_disk /\ HadArtifact /\ ~HadCache
    /\ call.cap.ok
    /\ at_start.txt_files[CallTxtPath] = "old\n"
    /\ json_files[CallJsonPath].exists

\* The segments the last call started from: those of the cache on a cache
\* hit, those the capability gave otherwise.
SourceSegments ==
    IF call.save_to_disk /\ HadCache THEN CachedSegments
    ELSE call.cap.result.segments

\* The last call got as far as lines 155-161: it had an aligned result to
\* hand to the Transcript.
HandsOnResult == Called /\ call.raised \in {None, NoFieldError}

(***************************************************************************)
(* C15.  In the aligned result the Transcribe Stage ends with (the one it  *)
(* hands to the Transcript it returns), loaded from the cache or freshly   *)
(* computed, every segment has a chars key: the value the source segment   *)
(* had when it had one, None otherwise.  A call that raised before it had  *)
(* a result to hand on (precondition, capability, cache file not           *)
(* writable) has none.                                                     *)
(***************************************************************************)
C15_EverySegmentHasChars ==
    HandsOnResult =>
        LET out == call.aligned_result.segments IN
        /\ Len(out) = Len(SourceSegments)
        /\ \A k \in 1..Len(out) :
              /\ "chars" \in DOMAIN out[k]
              /\ out[k].chars = IF "chars" \in DOMAIN SourceSegments[k]
                                THEN SourceSegments[k].chars
                                ELSE None

\* A call has ended with a result loaded from the cache in which one
\* segment had chars and one had not.
C15_Witness ==
    /\ HandsOnResult /\ call.save_to_disk /\ HadCache
    /\ \E k \in 1..Len(SourceSegments) : "chars" \in DOMAIN SourceSegments[k]
    /\ \E k \in 1..Len(SourceSegments) : "chars" \notin DOMAIN SourceSegments[k]

(***************************************************************************)
(* Vocabulary of the properties of gateway calls.                          *)
(***************************************************************************)

\* The write of a logged gateway call took effect in the store: the call
\* returned, or its commit was applied and only the acknowledgement lost.
Applied(e) ==
    \/ e.raised = None
    \/ e.fault = "commit applied" /\ e.raised = "OperationalError"

StoreIds == {Uuid5(u) : u \in StoreUrls}

\* Positions in the log of the track (transcript) upserts for an id that
\* took effect.
TrackUpsertsOf(id) ==
    {k \in 1..Len(gateway_log) :
        /\ gateway_log[k].op = "insert_track"
        /\ Applied(gateway_log[k])
        /\ gateway_log[k].arg.uuid = id}
TranscriptUpsertsOf(id) ==
    {k \in 1..Len(gateway_log) :
        /\ gateway_log[k].op = "insert_transcript"
        /\ Applied(gateway_log[k])
        /\ gateway_log[k].arg.uuid = id}

Last(S) == CHOOSE k \in S : \A m \in S : m <= k

\* A Track row holds the mutable columns of track t.
RowHoldsTrack(r, t) ==
    /\ r.title = t.title
    /\ r.webpage_url = t.webpage_url
    /\ r.download_url = t.download_url
    /\ r.playlist_url = t.playlist_url
    /\ r.track_number_in_playlist = t.track_number_in_playlist
    /\ r.uploader = t.uploader
    /\ r.status = t.status
    /\ r.duration_seconds = t.duration_seconds
    /\ r.audio_file_path = t.audio_file_path

(***************************************************************************)
(* C16.  After any sequence of insert_track calls the tracks table holds   *)
(* at most one row per track id; an id has a row exactly when a track with *)
(* that id has been upserted, and the row's mutable columns are those of   *)
(* the last track upserted for the id; a call that repeats the call before *)
(* it leaves the store as it was.                                          *)
(***************************************************************************)
C16_UpsertTrackLastWins ==
    /\ \A id \in StoreIds :
          /\ Cardinality({r \in tracks_rows : r.track_uuid = id}) <= 1
          /\ TrackUpsertsOf(id) = {} =>
                \A r \in tracks_rows : r.track_uuid # id
          /\ TrackUpsertsOf(id) # {} =>
                \E r \in tracks_rows :
                    /\ r.track_uuid = id
                    /\ RowHoldsTrack(r, gateway_log[Last(TrackUpsertsOf(id))].arg)
    /\ \A k \in 2..Len(gateway_log) :
          (/\ k = Len(gateway_log)
           /\ gateway_log[k].op = "insert_track"
           /\ gateway_log[k - 1].op = "insert_track"
           /\ gateway_log[k].arg = gateway_log[k - 1].arg
           /\ gateway_log[k].raised = None
           /\ gateway_log[k - 1].raised = None)
          => Snapshot = at_start

\* Two tracks with one id and different columns have been upserted, one
\* after the other.
C16_Witness ==
    /\ Len(gateway_log) >= 2
    /\ gateway_log[1].op = "insert_track" /\ gateway_log[1].raised = None
    /\ gateway_log[2].op = "insert_track" /\ gateway_log[2].raised = None
    /\ gateway_log[1].arg.uuid = gateway_log[2].arg.uuid
    /\ gateway_log[1].arg.title # gateway_log[2].arg.title
    /\ gateway_log[1].arg.status # gateway_log[2].arg.status

(***************************************************************************)
(* C17.  After any sequence of insert_transcript calls the transcripts     *)
(* table holds at most one row per track id; an id has a row exactly when  *)
(* a transcript with that id has been upserted, and the row's aligned      *)
(* result and embedding are those of the last transcript upserted for the  *)
(* id.                                                                     *)
(***************************************************************************)
C17_UpsertTranscriptLastWins ==
    \A id \in StoreIds :
        /\ Cardinality({r \in transcripts_rows : r.track_uuid = id}) <= 1
        /\ TranscriptUpsertsOf(id) = {} =>
              \A r \in transcripts_rows : r.track_uuid # id
        /\ TranscriptUpsertsOf(id) # {} =>
              LET t == gateway_log[Last(TranscriptUpsertsOf(id))].arg IN
              \E r \in transcripts_rows :
                  /\ r.track_uuid = id
                  /\ r.aligned_segments_data = t.aligned_result
                  /\ r.embeddings = t.embedding

\* Two transcripts with one id and different aligned results have been
\* upserted, one after the other.
C17_Witness ==
    /\ Len(gateway_log) = 3
    /\ gateway_log[2].op = "insert_transcript" /\ gateway_log[2].raised = None
    /\ gateway_log[3].op = "insert_transcript" /\ gateway_log[3].raised = None
    /\ gateway_log[2].arg.uuid = gateway_log[3].arg.uuid
    /\ gateway_log[2].arg.aligned_result # gateway_log[3].arg.aligned_result

(***************************************************************************)
(* C18.  A gateway call that fails hands its error to the caller, and the  *)
(* row of the id it was called for is then either as it was before the     *)
(* call or as the call writes it, with every column from the argument;     *)
(* all other rows are as they were.                                        *)
(***************************************************************************)
C18_FailedUpsertIsAtomic ==
    \A k \in 1..Len(gateway_log) :
        (k = Len(gateway_log) /\ gateway_log[k].raised # None) =>
            LET e == gateway_log[k] IN
            /\ gateway_raised = e.raised
            /\ e.raised = "AttributeError" => Snapshot = at_start
            /\ (e.op = "insert_track") =>
                  LET id == e.arg.uuid
                      old == {r \in at_start.tracks_rows : r.track_uuid = id}
                      now == {r \in tracks_rows : r.track_uuid = id}
                  IN  /\ \/ now = old
                         \/ /\ Cardinality(now) = 1
                            /\ \A r \in now : RowHoldsTrack(r, e.arg)
                      /\ tracks_rows \ now = at_start.tracks_rows \ old
                      /\ transcripts_rows = at_start.transcripts_rows
            /\ (e.op = "insert_transcript" /\ e.raised # "AttributeError") =>
                  LET id == e.arg.uuid
                      old == {r \in at_start.transcripts_rows : r.track_uuid = id}
                      now == {r \in transcripts_rows : r.track_uuid = id}
                  IN  /\ \/ now = old
                         \/ /\ Cardinality(now) = 1
                            /\ \A r \in now :
                                  /\ r.aligned_segments_data = e.arg.aligned_result
                                  /\ r.embeddings = e.arg.embedding
                      /\ transcripts_rows \ now = at_start.transcripts_rows \ old
                      /\ tracks_rows = at_start.tracks_rows

\* An insert_track for an id that has a row with other columns has raised
\* after its commit was applied.
C18_Witness ==
    /\ Len(gateway_log) >= 2
    /\ LET e == gateway_log[Len(gateway_log)] IN
        /\ e.op = "insert_track"
        /\ e.raised = "OperationalError"
        /\ e.fault = "commit applied"
        /\ \E r \in at_start.tracks_rows :
              r.track_uuid = e.arg.uuid /\ r.title # e.arg.title
        /\ tracks_rows # at_start.tracks_rows

(***************************************************************************)
(* Vocabulary of the properties of playlist runs.                          *)
(***************************************************************************)

\* Indices in tracks of the Track objects built for playlist position k.
TracksOfPosition(k) ==
    {n \in 1..Len(tracks) : tracks[n].track_number_in_playlist = k}

\* Playlist position k has been taken through stage op, which returned.
StageReturned(op, k) ==
    \E n \in TracksOfPosition(k) : \E e \in Range(stage_log) :
        e.op = op /\ e.i = n /\ e.raised = None

\* Playlist position k has caused no stage work at all: no Track object, so
\* no fetch and no transcription.
NoWorkFor(k) == TracksOfPosition(k) = {}

\* Valid positions whose URL the store recorded as transcribed at discovery.
ShortCircuited ==
    {k \in ValidPositions :
        TrackIsTranscribed(at_start.tracks_rows, info.entries[k].webpage_url)}

\* A playlist run has ended in which no external capability failed.
PlaylistRunEnded == RunEnded /\ settings.IS_PLAYLIST /\ info.found /\ ext_ok

(***************************************************************************)
(* C19.  In a playlist run in which no external capability fails, an entry *)
(* without a webpage URL or without a media locator raises nothing and     *)
(* causes no fetch, no transcription and no store write, and every valid   *)
(* entry before or after it that is not yet transcribed is taken through   *)
(* the Fetch Stage and the Transcribe Stage to their return.               *)
(***************************************************************************)
C19_InvalidEntrySkipped ==
    (PlaylistRunEnded /\ \E k \in 1..Len(info.entries) : k \notin ValidPositions)
    => /\ error = None
       /\ \A k \in 1..Len(info.entries) : k \notin ValidPositions => NoWorkFor(k)
       /\ tracks_rows = at_start.tracks_rows
       /\ transcripts_rows = at_start.transcripts_rows
       /\ \A k \in ValidPositions \ ShortCircuited :
             StageReturned("fetch", k) /\ StageReturned("transcribe", k)

(***************************************************************************)
(* C20.  In a playlist run in which no external capability fails, every    *)
(* entry recorded as transcribed at discovery is neither fetched nor       *)
(* transcribed nor written to the store, and every other valid entry is    *)
(* taken through the Fetch Stage and the Transcribe Stage to their return. *)
(***************************************************************************)
C20_TranscribedEntriesShortCircuited ==
    (PlaylistRunEnded /\ ShortCircuited # {})
    => /\ \A k \in ShortCircuited : NoWorkFor(k)
       /\ tracks_rows = at_start.tracks_rows
       /\ transcripts_rows = at_start.transcripts_rows
       /\ \A k \in ValidPositions \ ShortCircuited :
             StageReturned("fetch", k) /\ StageReturned("transcribe", k)

(***************************************************************************)
(* C21.  A stage call that raises ends the run with that error: it is the  *)
(* last stage call of the run, so no track after it in source order is     *)
(* fetched or transcribed afterwards, and after a fetch that raised no     *)
(* track is transcribed at all.  The step that raises leaves the store,    *)
(* the other Track objects, every artifact and the cache files of the      *)
(* other tracks as they were.                                              *)
(***************************************************************************)
C21_FatalErrorAbortsBatch ==
    /\ [](\A n \in 1..Len(stage_log) :
            stage_log[n].raised # None =>
                /\ n = Len(stage_log)
                /\ pc = "failed"
                /\ error = stage_log[n].raised
                /\ \A m \in 1..Len(stage_log) :
                      /\ stage_log[m].op = stage_log[n].op
                            => stage_log[m].i <= stage_log[n].i
                      /\ stage_log[n].op = "fetch" => stage_log[m].op = "fetch")
    /\ [][(/\ Len(stage_log') = Len(stage_log) + 1
           /\ stage_log'[Len(stage_log')].raised # None)
          => /\ tracks_rows' = tracks_rows
             /\ transcripts_rows' = transcripts_rows
             /\ audio_files' = audio_files
             /\ \A m \in 1..Len(tracks) : m # i => tracks'[m] = tracks[m]
             /\ \A p \in JsonPaths :
                   p # UniqueTranscriptFilePath(tracks[i].webpage_url, "json")
                      => json_files'[p] = json_files[p]
             /\ \A p \in TxtPaths :
                   p # UniqueTranscriptFilePath(tracks[i].webpage_url, "txt")
                      => txt_files'[p] = txt_files[p]
         ]_vars

\* The fetch of the second track of a playlist left no artifact, after the
\* first track, another one, had got its artifact.
C21_Witness ==
    /\ pc = "failed"
    /\ settings.IS_PLAYLIST
    /\ Len(tracks) = 2
    /\ tracks[1].webpage_url # tracks[2].webpage_url
    /\ stage_log[Len(stage_log)] = [op |-> "fetch", i |-> 2,
                                    raised |-> "FileNotFoundError"]
    /\ audio_files[UniqueAudioFilePath(tracks[1].webpage_url)] # NoFile
    /\ audio_files[UniqueAudioFilePath(tracks[2].webpage_url)] = NoFile

(***************************************************************************)
(* C22.  For every Track object discovery has built, the audio artifact    *)
(* path, the transcript cache paths and the Transcript id are made from    *)
(* the Track's uuid, and the uuid track_is_transcribed looked up for its   *)
(* entry is that uuid.                                                     *)
(***************************************************************************)
C22_OneKeyPerTrack ==
    \A n \in 1..Len(tracks) :
        LET t == tracks[n] IN
        /\ UniqueAudioFilePath(t.webpage_url) = AUDIO_DIR \o t.uuid \o ".wav"
        /\ UniqueTranscriptFilePath(t.webpage_url, "json")
              = TRANSCRIPT_DIR \o t.uuid \o ".json"
        /\ UniqueTranscriptFilePath(t.webpage_url, "txt")
              = TRANSCRIPT_DIR \o t.uuid \o ".txt"
        /\ Uuid5(t.webpage_url) = t.uuid
        /\ \E k \in ValidPositions :
              /\ HttpUrl(info.entries[k].webpage_url) = t.webpage_url
              /\ Uuid5(info.entries[k].webpage_url) = t.uuid

\* The webpage URL, as discovery reported it, of the entry that Track
\* object n of the run was built from.
EntryUrlOf(n) ==
    info.entries[IF settings.IS_PLAYLIST
                 THEN tracks[n].track_number_in_playlist ELSE 1].webpage_url

(***************************************************************************)
(* C23.  The uuid of every Track object is resolveId of the webpage URL    *)
(* discovery reported for it and of nothing else, so that two discoveries  *)
(* of one URL, in one run or in two, mint one id; no step of a run and no  *)
(* gateway write changes the uuid of a Track object, the track_uuid of the *)
(* row stored for a webpage URL, or the track_uuid of a Transcript row.    *)
(***************************************************************************)
C23_IdentityIsFunctionOfUrl ==
    /\ [](\A n \in 1..Len(tracks) : tracks[n].uuid = ResolveId(EntryUrlOf(n)))
    /\ [][/\ (runs' = runs) =>
                /\ Len(tracks') = Len(tracks)
                /\ \A n \in 1..Len(tracks) : tracks'[n].uuid = tracks[n].uuid
          /\ \A r \in tracks_rows : \A r2 \in tracks_rows' :
                r.webpage_url = r2.webpage_url => r.track_uuid = r2.track_uuid
          /\ \A r \in transcripts_rows : \E r2 \in transcripts_rows' :
                r2.track_uuid = r.track_uuid
         ]_vars

\* A repeated run has discovered one URL twice and fetched both Track
\* objects, with a row for that URL in the store.
C23_Witness ==
    /\ rerun
    /\ Len(tracks) = 2
    /\ EntryUrlOf(1) = EntryUrlOf(2)
    /\ tracks[1].status = DOWNLOADED /\ tracks[2].status = DOWNLOADED
    /\ \E r \in tracks_rows : r.track_uuid = tracks[1].uuid

(***************************************************************************)
(* C24.  Every call of the external fetch is given the media locator that  *)
(* discovery resolved in the same run for the entry of the track, never    *)
(* the download_url kept in a Track row.                                   *)
(***************************************************************************)
C24_FetchUsesFreshLocator ==
    \A c \in Range(fetch_calls) :
        /\ c.url = HttpUrl(info.entries[IF settings.IS_PLAYLIST
                                        THEN tracks[c.i].track_number_in_playlist
                                        ELSE 1].url)
        /\ \A r \in tracks_rows : c.url # r.download_url

\* The external fetch has been called for a track that has a row, with a
\* download_url, in the store.
C24_Witness ==
    /\ ~settings.IS_PLAYLIST
    /\ Len(fetch_calls) = 1
    /\ \E r \in tracks_rows :
          r.track_uuid = tracks[1].uuid /\ r.download_url # None

(***************************************************************************)
(* C25.  Tracks are handled in the order of the playlist: the tracks of a  *)
(* run are in increasing playlist position, and each stage takes them one  *)
(* by one from the first.  The transcription capability is called for a    *)
(* track only after the Fetch Stage has returned for that track, and a     *)
(* Fetch Stage that has returned has left the artifact of the track in     *)
(* place.  Stage calls are the steps of one sequential log, so no two of   *)
(* them overlap.                                                           *)
(***************************************************************************)
C25_SourceOrderFetchBeforeTranscribe ==
    /\ \A m, n \in 1..Len(tracks) :
          (settings.IS_PLAYLIST /\ m < n) =>
              tracks[m].track_number_in_playlist < tracks[n].track_number_in_playlist
    /\ \A n \in 1..Len(stage_log) :
          LET e == stage_log[n]
              earlier == {m \in 1..(n - 1) : stage_log[m].op = e.op}
          IN
          /\ e.i = Cardinality(earlier) + 1
          /\ (e.op = "fetch" /\ e.raised = None) =>
                audio_files[UniqueAudioFilePath(tracks[e.i].webpage_url)] # NoFile
          /\ e.op = "transcribe" =>
                \E m \in 1..(n - 1) :
                    stage_log[m] = [op |-> "fetch", i |-> e.i, raised |-> None]
    /\ \A c \in Range(transcribe_calls) :
          /\ \E n \in 1..Len(stage_log) :
                stage_log[n].op = "transcribe" /\ stage_log[n].i = c.i
          /\ audio_files[UniqueAudioFilePath(tracks[c.i].webpage_url)] # NoFile

\* A playlist run of two tracks in which both were fetched and then the
\* transcription capability was called for the first.
C25_Witness ==
    /\ settings.IS_PLAYLIST
    /\ Len(tracks) = 2
    /\ Len(stage_log) = 3
    /\ stage_log[2] = [op |-> "fetch", i |-> 2, raised |-> None]
    /\ stage_log[3].op = "transcribe"
    /\ Len(fetch_calls) = 2
    /\ Len(transcribe_calls) = 1

(***************************************************************************)
(* C26.  In a playlist run the Transcribe Stage is entered only when the   *)
(* Fetch Stage has returned for every track of the run.  When the fetch of *)
(* a track has raised, the run has called the Transcribe Stage and the     *)
(* transcription capability for no track, and the transcript directory is  *)
(* as it was when the run started, also for the tracks fetched before the  *)
(* failure.                                                                *)
(***************************************************************************)
C26_AllFetchesBeforeAnyTranscribe ==
    settings.IS_PLAYLIST =>
        /\ \A n \in 1..Len(stage_log) :
              stage_log[n].op = "transcribe" =>
                  \A k \in 1..Len(tracks) :
                      \E m \in 1..(n - 1) :
                          stage_log[m] = [op |-> "fetch", i |-> k, raised |-> None]
        /\ (\E n \in 1..Len(stage_log) :
                stage_log[n].op = "fetch" /\ stage_log[n].raised # None) =>
              /\ \A m \in 1..Len(stage_log) : stage_log[m].op = "fetch"
              /\ transcribe_calls = <<>>
              /\ json_files = at_start.json_files
              /\ txt_files = at_start.txt_files
              /\ \A k \in 1..Len(tracks) : tracks[k].status # TRANSCRIBED

\* A playlist run of two tracks that has ended on the failed fetch of the
\* second, the first having been fetched from the network with success.
C26_Witness ==
    /\ settings.IS_PLAYLIST
    /\ pc = "failed"
    /\ Len(tracks) = 2
    /\ Len(stage_log) = 2
    /\ stage_log[1] = [op |-> "fetch", i |-> 1, raised |-> None]
    /\ stage_log[2].raised # None
    /\ Len(fetch_calls) >= 1
    /\ fetch_calls[1].i = 1 /\ fetch_calls[1].produced
    /\ tracks[1].status = DOWNLOADED

\* Indices in tracks of the Track objects that have the track id of tracks[n].
OccurrencesOf(n) == {k \in 1..Len(tracks) : tracks[k].uuid = tracks[n].uuid}

\* Positions in fetch_calls, and in transcribe_calls, of the external calls
\* made for the occurrences of the track id of tracks[n].
FetchCallsOf(n) ==
    {j \in 1..Len(fetch_calls) : fetch_calls[j].i \in OccurrencesOf(n)}

TranscribeCallsOf(n) ==
    {j \in 1..Len(transcribe_calls) : transcribe_calls[j].i \in OccurrencesOf(n)}

\* The external calls made for the track id of tracks[n] are at most one
\* fetch, when the first fetch produced the artifact, and at most one
\* transcription.
AtMostOnceFor(n) ==
    /\ (\A j \in FetchCallsOf(n) :
            (\A j2 \in FetchCallsOf(n) : j <= j2) => fetch_calls[j].produced)
          => Cardinality(FetchCallsOf(n)) <= 1
    /\ Cardinality(TranscribeCallsOf(n)) <= 1

\* Every occurrence of the track id of tracks[n] has been taken through both
\* stages to their return.
EveryOccurrenceServed(n) ==
    \A k \in OccurrencesOf(n) :
        /\ \E e \in Range(stage_log) :
              e = [op |-> "fetch", i |-> k, raised |-> None]
        /\ \E e \in Range(stage_log) :
              e = [op |-> "transcribe", i |-> k, raised |-> None]

(***************************************************************************)
(* C27.  In a playlist run whose tracks hold one track id more than once,  *)
(* the external fetch is called at most once for that id when its first    *)
(* call produced the artifact, the transcription capability is called at   *)
(* most once for that id, and when the run has ended with no external      *)
(* capability failing, every occurrence has been taken through the Fetch   *)
(* Stage and the Transcribe Stage to their return, the later ones on the   *)
(* artifact and the cached transcript of the first.                        *)
(***************************************************************************)
C27_DuplicateUrlHandledOnce ==
    settings.IS_PLAYLIST =>
        \A n \in 1..Len(tracks) :
            Cardinality(OccurrencesOf(n)) > 1 =>
                /\ AtMostOnceFor(n)
                /\ (RunEnded /\ ext_ok) => EveryOccurrenceServed(n)

(***************************************************************************)
(* C28.  A Transcribe Stage call that raises the precondition error or the *)
(* error of the transcription capability leaves the transcript directory   *)
(* as it was, cache file and plain-text rendering of the track included,   *)
(* and leaves the caller's track as it was: same status, no transcript     *)
(* attached.                                                               *)
(***************************************************************************)
C28_FailedTranscribeIsClean ==
    (Called /\ call.raised \in {AudioFileError, "RuntimeError"}) =>
        /\ json_files = at_start.json_files
        /\ txt_files = at_start.txt_files
        /\ audio_files = at_start.audio_files
        /\ call.track = call.before
        /\ tracks[1] = call.before
        /\ call.track.status # TRANSCRIBED
        /\ ~call.attached
        /\ call.transcript = NoTranscript

\* The capability was called with persistence asked for and raised, on a
\* track that has its artifact and no cache file.
C28_Witness ==
    /\ Called
    /\ call.raised = "RuntimeError"
    /\ call.save_to_disk
    /\ call.invoked = 1
    /\ HadArtifact
    /\ ~HadCache
    /\ ~json_files[CallJsonPath].exists
    /\ txt_files[CallTxtPath] = NoFile

(***************************************************************************)
(* C29.  After any sequence of insert_track calls no two Track rows have   *)
(* the same webpage_url (nor the same track_uuid).  An insert_track whose  *)
(* webpage_url is that of a row with another track_uuid raises a store     *)
(* error, IntegrityError when the store was reached, and leaves both       *)
(* tables as they were.                                                    *)
(***************************************************************************)
C29_WebpageUrlIsUnique ==
    /\ \A r1, r2 \in tracks_rows :
          (r1.webpage_url = r2.webpage_url \/ r1.track_uuid = r2.track_uuid)
              => r1 = r2
    /\ \A k \in 1..Len(gateway_log) :
          LET e == gateway_log[k] IN
          (/\ k = Len(gateway_log)
           /\ e.op = "insert_track"
           /\ \E r \in at_start.tracks_rows :
                 /\ r.webpage_url = TrackValuesToInsert(e.arg).webpage_url
                 /\ r.track_uuid # e.arg.uuid)
          => /\ e.raised \in {"IntegrityError", "OperationalError"}
             /\ e.fault # "connect" => e.raised = "IntegrityError"
             /\ gateway_raised = e.raised
             /\ tracks_rows = at_start.tracks_rows
             /\ transcripts_rows = at_start.transcripts_rows

\* The store was reached by an insert_track for a webpage_url that a row of
\* another track_uuid holds, and the call raised IntegrityError.
C29_Witness ==
    /\ Len(gateway_log) >= 2
    /\ LET e == gateway_log[Len(gateway_log)] IN
        /\ e.op = "insert_track"
        /\ e.fault = NoFault
        /\ e.raised = "IntegrityError"
        /\ \E r \in tracks_rows :
              /\ r.webpage_url = TrackValuesToInsert(e.arg).webpage_url
              /\ r.track_uuid # e.arg.uuid

(***************************************************************************)
(* C30.  Every Transcript row has the track_uuid of a Track row.  An       *)
(* insert_transcript for a track_uuid that no Track row has raises and     *)
(* leaves both tables as they were, so that a Transcript row is only ever  *)
(* written after the Track row of its track.                               *)
(***************************************************************************)
C30_TranscriptReferencesTrack ==
    /\ [](/\ \A r \in transcripts_rows :
                \E t \in tracks_rows : t.track_uuid = r.track_uuid
          /\ \A k \in 1..Len(gateway_log) :
                LET e == gateway_log[k] IN
                (/\ k = Len(gateway_log)
                 /\ e.op = "insert_transcript"
                 /\ "uuid" \in DOMAIN e.arg
                 /\ \A t \in at_start.tracks_rows : t.track_uuid # e.arg.uuid)
                => /\ e.raised # None
                   /\ e.fault # "connect" => e.raised = "IntegrityError"
                   /\ gateway_raised = e.raised
                   /\ tracks_rows = at_start.tracks_rows
                   /\ transcripts_rows = at_start.transcripts_rows)
    /\ [][\A r \in transcripts_rows' \ transcripts_rows :
             \E t \in tracks_rows : t.track_uuid = r.track_uuid]_vars

\* The store, holding the row of another track, was reached by an
\* insert_transcript for a track without a row, and the call raised
\* IntegrityError.
C30_Witness ==
    /\ Len(gateway_log) >= 2
    /\ tracks_rows # {}
    /\ LET e == gateway_log[Len(gateway_log)] IN
        /\ e.op = "insert_transcript"
        /\ e.fault = NoFault
        /\ e.raised = "IntegrityError"
        /\ \A t \in tracks_rows : t.track_uuid # e.arg.uuid
        /\ \A r \in transcripts_rows : r.track_uuid # e.arg.uuid

====
